---- MODULE Spec2Model ----
(***************************************************************************)
(* The parser that grammar.js describes for CRBasic: the lexer (literal    *)
(* tokens and patterns, longest match among the tokens the parse state     *)
(* admits, whitespace and comments as extras), the statement rules as a    *)
(* pushdown of open rules, and the expression rules as a shift-reduce      *)
(* parser whose conflicts are settled by the declared precedences and      *)
(* associativities.  A source text is fed word by word; every word is      *)
(* lexed and parsed as it arrives.                                         *)
(***************************************************************************)
EXTENDS Integers, Sequences, FiniteSets, TLC

VARIABLES text, toks, stack, es, em, status, nodes, lastExpr, words, vocab, seps, limit

vars == <<text, toks, stack, es, em, status, nodes, lastExpr, words, vocab, seps, limit>>

(***************************************************************************)
(* Characters.  A text is a sequence of one-character strings.             *)
(***************************************************************************)
Digit == {"0","1","2","3","4","5","6","7","8","9"}

UpperSeq == <<"A","B","C","D","E","F","G","H","I","J","K","L","M",
              "N","O","P","Q","R","S","T","U","V","W","X","Y","Z">>

LowerSeq == <<"a","b","c","d","e","f","g","h","i","j","k","l","m",
              "n","o","p","q","r","s","t","u","v","w","x","y","z">>

Upper == {UpperSeq[i] : i \in 1..Len(UpperSeq)}

Lower == {LowerSeq[i] : i \in 1..Len(LowerSeq)}

\* extras: /\s/
WhiteSpace == {" ", "\n", "\t", "\r"}

\* identifier: /[a-zA-Z_][a-zA-Z0-9_]*/
IdStart == Upper \cup Lower \cup {"_"}

IdChar == IdStart \cup Digit

BinDigit == {"0","1"}

HexDigit == Digit \cup {"a","b","c","d","e","f","A","B","C","D","E","F"}

Suffix == {"L","l","U","u","F","f"}

LineEnd == {"\r", "\n"}

(***************************************************************************)
(* The string literals of the grammar's rules: each is a token of its own. *)
(***************************************************************************)
Literal ==
    ("BeginProg" :> <<"B","e","g","i","n","P","r","o","g">>)
 @@ ("EndProg" :> <<"E","n","d","P","r","o","g">>)
 @@ ("Function" :> <<"F","u","n","c","t","i","o","n">>)
 @@ ("EndFunction" :> <<"E","n","d","F","u","n","c","t","i","o","n">>)
 @@ ("Sub" :> <<"S","u","b">>)
 @@ ("EndSub" :> <<"E","n","d","S","u","b">>)
 @@ ("Dim" :> <<"D","i","m">>)
 @@ ("Public" :> <<"P","u","b","l","i","c">>)
 @@ ("As" :> <<"A","s">>)
 @@ ("Const" :> <<"C","o","n","s","t">>)
 @@ ("=" :> <<"=">>)
 @@ ("ConstTable" :> <<"C","o","n","s","t","T","a","b","l","e">>)
 @@ ("EndConstTable" :> <<"E","n","d","C","o","n","s","t","T","a","b","l","e">>)
 @@ ("*=" :> <<"*","=">>)
 @@ ("+=" :> <<"+","=">>)
 @@ ("-=" :> <<"-","=">>)
 @@ ("/=" :> <<"/","=">>)
 @@ ("\\=" :> <<"\\","=">>)
 @@ ("^=" :> <<"^","=">>)
 @@ ("&=" :> <<"&","=">>)
 @@ ("(" :> <<"(">>)
 @@ (")" :> <<")">>)
 @@ ("," :> <<",">>)
 @@ ("If" :> <<"I","f">>)
 @@ ("Then" :> <<"T","h","e","n">>)
 @@ ("ElseIf" :> <<"E","l","s","e","I","f">>)
 @@ ("Else If" :> <<"E","l","s","e"," ","I","f">>)
 @@ ("Else" :> <<"E","l","s","e">>)
 @@ ("EndIf" :> <<"E","n","d","I","f">>)
 @@ ("For" :> <<"F","o","r">>)
 @@ ("To" :> <<"T","o">>)
 @@ ("Step" :> <<"S","t","e","p">>)
 @@ ("Next" :> <<"N","e","x","t">>)
 @@ ("While" :> <<"W","h","i","l","e">>)
 @@ ("Wend" :> <<"W","e","n","d">>)
 @@ ("Do" :> <<"D","o">>)
 @@ ("Loop" :> <<"L","o","o","p">>)
 @@ ("Until" :> <<"U","n","t","i","l">>)
 @@ ("Select" :> <<"S","e","l","e","c","t">>)
 @@ ("Case" :> <<"C","a","s","e">>)
 @@ ("Is" :> <<"I","s">>)
 @@ ("EndSelect" :> <<"E","n","d","S","e","l","e","c","t">>)
 @@ ("Scan" :> <<"S","c","a","n">>)
 @@ ("NextScan" :> <<"N","e","x","t","S","c","a","n">>)
 @@ ("SubScan" :> <<"S","u","b","S","c","a","n">>)
 @@ ("NextSubScan" :> <<"N","e","x","t","S","u","b","S","c","a","n">>)
 @@ ("SlowSequence" :> <<"S","l","o","w","S","e","q","u","e","n","c","e">>)
 @@ ("EndSequence" :> <<"E","n","d","S","e","q","u","e","n","c","e">>)
 @@ ("DisplayMenu" :> <<"D","i","s","p","l","a","y","M","e","n","u">>)
 @@ ("EndMenu" :> <<"E","n","d","M","e","n","u">>)
 @@ ("SubMenu" :> <<"S","u","b","M","e","n","u">>)
 @@ ("EndSubMenu" :> <<"E","n","d","S","u","b","M","e","n","u">>)
 @@ ("MenuItem" :> <<"M","e","n","u","I","t","e","m">>)
 @@ ("DataTable" :> <<"D","a","t","a","T","a","b","l","e">>)
 @@ ("EndTable" :> <<"E","n","d","T","a","b","l","e">>)
 @@ ("CallTable" :> <<"C","a","l","l","T","a","b","l","e">>)
 @@ ("#If" :> <<"#","I","f">>)
 @@ ("#Else" :> <<"#","E","l","s","e">>)
 @@ ("#EndIf" :> <<"#","E","n","d","I","f">>)
 @@ ("#IfDef" :> <<"#","I","f","D","e","f">>)
 @@ ("#UnDef" :> <<"#","U","n","D","e","f">>)
 @@ ("Include" :> <<"I","n","c","l","u","d","e">>)
 @@ ("+" :> <<"+">>)
 @@ ("-" :> <<"-">>)
 @@ ("*" :> <<"*">>)
 @@ ("/" :> <<"/">>)
 @@ ("MOD" :> <<"M","O","D">>)
 @@ ("INTDV" :> <<"I","N","T","D","V">>)
 @@ ("^" :> <<"^">>)
 @@ ("<>" :> <<"<",">">>)
 @@ ("<" :> <<"<">>)
 @@ (">" :> <<">">>)
 @@ ("<=" :> <<"<","=">>)
 @@ (">=" :> <<">","=">>)
 @@ ("AND" :> <<"A","N","D">>)
 @@ ("OR" :> <<"O","R">>)
 @@ ("XOR" :> <<"X","O","R">>)
 @@ ("IMP" :> <<"I","M","P">>)
 @@ ("&" :> <<"&">>)
 @@ ("|" :> <<"|">>)
 @@ (">>" :> <<">",">">>)
 @@ ("<<" :> <<"<","<">>)
 @@ ("NOT" :> <<"N","O","T">>)
 @@ ("!" :> <<"!">>)
 @@ ("\"" :> <<"\"">>)
 @@ ("True" :> <<"T","r","u","e">>)
 @@ ("False" :> <<"F","a","l","s","e">>)
 @@ ("TRUE" :> <<"T","R","U","E">>)
 @@ ("FALSE" :> <<"F","A","L","S","E">>)
 @@ ("true" :> <<"t","r","u","e">>)
 @@ ("false" :> <<"f","a","l","s","e">>)
 @@ ("Boolean" :> <<"B","o","o","l","e","a","n">>)
 @@ ("Float" :> <<"F","l","o","a","t">>)
 @@ ("Double" :> <<"D","o","u","b","l","e">>)
 @@ ("Long" :> <<"L","o","n","g">>)
 @@ ("String" :> <<"S","t","r","i","n","g">>)
 @@ ("FP2" :> <<"F","P","2">>)
 @@ ("IEEE4" :> <<"I","E","E","E","4">>)
 @@ ("IEEE8" :> <<"I","E","E","E","8">>)
 @@ ("UINT1" :> <<"U","I","N","T","1">>)
 @@ ("UINT2" :> <<"U","I","N","T","2">>)
 @@ ("UINT4" :> <<"U","I","N","T","4">>)
 @@ ("Bool8" :> <<"B","o","o","l","8">>)
 @@ ("NSEC" :> <<"N","S","E","C">>)


LiteralKinds == DOMAIN Literal

\* boolean: choice('True', 'False', 'TRUE', 'FALSE', 'true', 'false')
BooleanLits == {"True", "False", "TRUE", "FALSE", "true", "false"}

\* type: choice('Boolean', 'Float', ...)
TypeLits == {"Boolean", "Float", "Double", "Long", "String", "FP2", "IEEE4",
             "IEEE8", "UINT1", "UINT2", "UINT4", "Bool8", "NSEC"}

\* assignment: choice('=', '*=', '+=', '-=', '/=', '\\=', '^=', '&=')
AssignOps == {"=", "*=", "+=", "-=", "/=", "\\=", "^=", "&="}

(***************************************************************************)
(* Pattern tokens.  Each operator gives the length of the longest match of *)
(* its pattern at position i of t, 0 when the pattern does not match.      *)
(***************************************************************************)
At(t, i) == IF i >= 1 /\ i <= Len(t) THEN t[i] ELSE ""

RECURSIVE RunLen(_, _, _)
RunLen(t, i, S) ==
    IF i <= Len(t) /\ t[i] \in S THEN 1 + RunLen(t, i + 1, S) ELSE 0

RECURSIVE RunNot(_, _, _)
RunNot(t, i, S) ==
    IF i <= Len(t) /\ t[i] \notin S THEN 1 + RunNot(t, i + 1, S) ELSE 0

IdentifierLen(t, i) ==
    IF At(t, i) \in IdStart THEN 1 + RunLen(t, i + 1, IdChar) ELSE 0

\* comment: /'[^\r\n]*/
CommentLen(t, i) ==
    IF At(t, i) = "'" THEN 1 + RunNot(t, i + 1, LineEnd) ELSE 0

\* /[^"\\]/ inside a string
StrCharLen(t, i) ==
    IF i <= Len(t) /\ t[i] \notin {"\"", "\\"} THEN 1 ELSE 0

\* /\\./ inside a string
StrEscapeLen(t, i) ==
    IF At(t, i) = "\\" /\ i + 1 <= Len(t) /\ t[i + 1] # "\n" THEN 2 ELSE 0

\* [eE][+-]?\d+
ExponentLen(t, i) ==
    IF At(t, i) \in {"e", "E"}
    THEN LET sg == IF At(t, i + 1) \in {"+", "-"} THEN 1 ELSE 0
             d  == RunLen(t, i + 1 + sg, Digit)
         IN  IF d > 0 THEN 1 + sg + d ELSE 0
    ELSE 0

\* /&[bB][0-1]+/
NumBinary(t, i) ==
    IF At(t, i) = "&" /\ At(t, i + 1) \in {"b", "B"} /\ RunLen(t, i + 2, BinDigit) > 0
    THEN 2 + RunLen(t, i + 2, BinDigit) ELSE 0

\* /&[hH][0-9a-fA-F]+/
NumHex(t, i) ==
    IF At(t, i) = "&" /\ At(t, i + 1) \in {"h", "H"} /\ RunLen(t, i + 2, HexDigit) > 0
    THEN 2 + RunLen(t, i + 2, HexDigit) ELSE 0

\* /\d+/
NumInt(t, i) == RunLen(t, i, Digit)

\* /\d+\.\d*/
NumFrac(t, i) ==
    LET d == RunLen(t, i, Digit)
    IN  IF d > 0 /\ At(t, i + d) = "." THEN d + 1 + RunLen(t, i + d + 1, Digit) ELSE 0

\* /\.\d+/
NumDot(t, i) ==
    IF At(t, i) = "." /\ RunLen(t, i + 1, Digit) > 0
    THEN 1 + RunLen(t, i + 1, Digit) ELSE 0

\* /\d+[eE][+-]?\d+/
NumIntExp(t, i) ==
    LET d == NumInt(t, i)
    IN  IF d > 0 /\ ExponentLen(t, i + d) > 0 THEN d + ExponentLen(t, i + d) ELSE 0

\* /\d+\.\d*[eE][+-]?\d+/
NumFracExp(t, i) ==
    LET d == NumFrac(t, i)
    IN  IF d > 0 /\ ExponentLen(t, i + d) > 0 THEN d + ExponentLen(t, i + d) ELSE 0

\* /\.\d+[eE][+-]?\d+/
NumDotExp(t, i) ==
    LET d == NumDot(t, i)
    IN  IF d > 0 /\ ExponentLen(t, i + d) > 0 THEN d + ExponentLen(t, i + d) ELSE 0

\* /\d+[LlUuFf]/
NumIntSuffix(t, i) ==
    LET d == NumInt(t, i)
    IN  IF d > 0 /\ At(t, i + d) \in Suffix THEN d + 1 ELSE 0

\* /\d+\.\d*[LlUuFf]/
NumFracSuffix(t, i) ==
    LET d == NumFrac(t, i)
    IN  IF d > 0 /\ At(t, i + d) \in Suffix THEN d + 1 ELSE 0

MaxOf(S) == CHOOSE x \in S : \A y \in S : y <= x

\* number: the longest match among its ten patterns
NumberLen(t, i) ==
    MaxOf({NumBinary(t, i), NumHex(t, i), NumInt(t, i), NumFrac(t, i),
           NumDot(t, i), NumIntExp(t, i), NumFracExp(t, i), NumDotExp(t, i),
           NumIntSuffix(t, i), NumFracSuffix(t, i)})

IsPrefixAt(lit, t, i) ==
    /\ i + Len(lit) - 1 <= Len(t)
    /\ \A j \in 1..Len(lit) : t[i + j - 1] = lit[j]

\* The literals by their first character.
LiteralsFrom ==
    [c \in {Literal[k][1] : k \in LiteralKinds} |->
        {k \in LiteralKinds : Literal[k][1] = c}]

\* Every token that matches at position i, with the length of its match.
Candidates(t, i) ==
    {[kind |-> k, len |-> Len(Literal[k]), lit |-> TRUE] :
        k \in {l \in (IF t[i] \in DOMAIN LiteralsFrom THEN LiteralsFrom[t[i]] ELSE {}) :
                  IsPrefixAt(Literal[l], t, i)}}
    \cup
    {c \in {[kind |-> "identifier", len |-> IdentifierLen(t, i), lit |-> FALSE],
            [kind |-> "number",     len |-> NumberLen(t, i),     lit |-> FALSE],
            [kind |-> "comment",    len |-> CommentLen(t, i),    lit |-> FALSE],
            [kind |-> "strescape",  len |-> StrEscapeLen(t, i),  lit |-> FALSE],
            [kind |-> "strchar",    len |-> StrCharLen(t, i),    lit |-> FALSE]} :
        c.len > 0}

\* The lexer's choice between two tokens that both match: the longer match,
\* and at equal length the string literal before the pattern.
Better(a, b) == a.len > b.len \/ (a.len = b.len /\ a.lit /\ ~b.lit)

(***************************************************************************)
(* Syntax trees.  A leaf carries its lexeme s; an inner node its operator  *)
(* and children (a function_call its name in s and its arguments).        *)
(***************************************************************************)
NoTree == [t |-> "", op |-> "", s |-> <<>>, kids |-> <<>>]

Leaf(t, s) == [t |-> t, op |-> "", s |-> s, kids |-> <<>>]

Node(t, op, kids) == [t |-> t, op |-> op, s |-> <<>>, kids |-> kids]

CallNode(name, args) == [t |-> "function_call", op |-> "", s |-> name, kids |-> args]

(***************************************************************************)
(* Expressions (binary_expression, unary_expression).  The precedence each *)
(* operator's rule declares, and the rule's associativity.                 *)
(***************************************************************************)
\* The levels with those of '+' and '*' exchanged.
BinaryLevelExchanged ==
    ("+" :> 2) @@ ("-" :> 1)
 @@ ("*" :> 1) @@ ("/" :> 2) @@ ("MOD" :> 2) @@ ("INTDV" :> 2)
 @@ ("^" :> 3)
 @@ ("=" :> 4) @@ ("<>" :> 4) @@ ("<" :> 4) @@ (">" :> 4) @@ ("<=" :> 4) @@ (">=" :> 4)
 @@ ("AND" :> 5) @@ ("OR" :> 5) @@ ("XOR" :> 5) @@ ("IMP" :> 5)
 @@ ("&" :> 6) @@ ("|" :> 6)
 @@ (">>" :> 7) @@ ("<<" :> 7)

BinaryLevel ==
    ("+" :> 1) @@ ("-" :> 1)
 @@ ("*" :> 2) @@ ("/" :> 2) @@ ("MOD" :> 2) @@ ("INTDV" :> 2)
 @@ ("^" :> 3)
 @@ ("=" :> 4) @@ ("<>" :> 4) @@ ("<" :> 4) @@ (">" :> 4) @@ ("<=" :> 4) @@ (">=" :> 4)
 @@ ("AND" :> 5) @@ ("OR" :> 5) @@ ("XOR" :> 5) @@ ("IMP" :> 5)
 @@ ("&" :> 6) @@ ("|" :> 6)
 @@ (">>" :> 7) @@ ("<<" :> 7)

BinaryOps == DOMAIN BinaryLevel

\* The power level declared prec.right instead.
AssociativityPowerRight(level) == IF level = 3 THEN "right" ELSE "left"

\* prec.left(n, ...) on every binary level
Associativity(level) == "left"

UnaryOps == {"-", "+", "NOT", "!"}

\* prec(8, ...) on every unary rule
UnaryPrec == 8

\* A shift-reduce conflict between reducing a rule of precedence rp and
\* associativity ra and shifting into a rule of precedence sp: the higher
\* precedence wins, and at equal precedence a left-associative rule reduces.
ReduceWins(rp, ra, sp) == rp > sp \/ (rp = sp /\ ra = "left")

\* Items of the expression stack.
Opd(tr, isId) == [k |-> "opd", op |-> "", tr |-> tr, isId |-> isId]

Bin(op) == [k |-> "bin", op |-> op, tr |-> NoTree, isId |-> FALSE]

Un(op) == [k |-> "un", op |-> op, tr |-> NoTree, isId |-> FALSE]

Lp == [k |-> "lp", op |-> "", tr |-> NoTree, isId |-> FALSE]

Call(name, args) == [k |-> "call", op |-> "", tr |-> CallNode(name, args), isId |-> FALSE]

Str(ret) == [k |-> "str", op |-> ret, tr |-> NoTree, isId |-> FALSE]

\* Reduce the top of the expression stack as long as reducing wins against
\* shifting an operator of precedence sp (0: nothing to shift).
RECURSIVE ReduceFor(_, _)
ReduceFor(s, sp) ==
    LET n == Len(s)
    IN  IF n >= 2 /\ s[n].k = "opd" /\ s[n - 1].k = "un"
           /\ ReduceWins(UnaryPrec, "none", sp)
        THEN ReduceFor(SubSeq(s, 1, n - 2)
                 \o <<Opd(Node("unary_expression", s[n - 1].op, <<s[n].tr>>), FALSE)>>, sp)
        ELSE IF n >= 3 /\ s[n].k = "opd" /\ s[n - 1].k = "bin" /\ s[n - 2].k = "opd"
                /\ ReduceWins(BinaryLevel[s[n - 1].op],
                              Associativity(BinaryLevel[s[n - 1].op]), sp)
        THEN ReduceFor(SubSeq(s, 1, n - 3)
                 \o <<Opd(Node("binary_expression", s[n - 1].op,
                               <<s[n - 2].tr, s[n].tr>>), FALSE)>>, sp)
        ELSE s

(***************************************************************************)
(* Statements.  Each rule that starts with a keyword has a head, the       *)
(* sequence of items after the keyword, and then either is complete or     *)
(* opens a body that its terminator closes.                                *)
(***************************************************************************)
ILit(k) == [ty |-> "lit", k |-> k, n |-> 0]

IId == [ty |-> "id", k |-> "", n |-> 0]

IExpr == [ty |-> "expr", k |-> "", n |-> 0]

IBool == [ty |-> "bool", k |-> "", n |-> 0]

IType == [ty |-> "type", k |-> "", n |-> 0]

IStr == [ty |-> "str", k |-> "", n |-> 0]

\* optional(seq(k, <the next n items>))
IOpt(k, n) == [ty |-> "opt", k |-> k, n |-> n]

\* optional($.parameter_list)
IParams == [ty |-> "params", k |-> "", n |-> 0]

RuleHead ==
    ("BeginProg" :> <<>>)
 @@ ("Function" :> <<IId, IParams>>)
 @@ ("Sub" :> <<IId, IParams>>)
 @@ ("Dim" :> <<IId, IOpt("As", 1), IType>>)
 @@ ("Public" :> <<IId, IOpt("As", 1), IType>>)
 @@ ("Const" :> <<IId, ILit("="), IExpr>>)
 @@ ("ConstTable" :> <<>>)
 @@ ("If" :> <<IExpr, ILit("Then")>>)
 @@ ("For" :> <<IId, ILit("="), IExpr, ILit("To"), IExpr, IOpt("Step", 1), IExpr>>)
 @@ ("While" :> <<IExpr>>)
 @@ ("Do" :> <<>>)
 @@ ("Select" :> <<ILit("Case"), IExpr>>)
 @@ ("Scan" :> <<ILit("("), IExpr, ILit(","), IId, ILit(","), IExpr, ILit(","), IExpr, ILit(")")>>)
 @@ ("SubScan" :> <<ILit("("), IExpr, ILit(","), IId, ILit(")")>>)
 @@ ("SlowSequence" :> <<>>)
 @@ ("DisplayMenu" :> <<>>)
 @@ ("SubMenu" :> <<IId>>)
 @@ ("DataTable" :> <<IId, IBool, IExpr>>)
 @@ ("CallTable" :> <<IId>>)
 @@ ("#If" :> <<IExpr>>)
 @@ ("#IfDef" :> <<IId>>)
 @@ ("#UnDef" :> <<IId>>)
 @@ ("Include" :> <<IStr>>)
    \* parts of rules, entered after their first token
 @@ ("MenuItem" :> <<IStr, IId>>)
 @@ ("assignment" :> <<IExpr>>)
 @@ ("ConstEntry" :> <<ILit("="), IExpr>>)
 @@ ("CaseClause" :> <<IExpr>>)

\* seq('Loop', 'Until', $._expression) and seq('Loop', 'While', $._expression):
\* what follows the Until or While
DoTail == <<IExpr>>

\* The keywords a statement starts with (_statement's alternatives).
StatementKeywords ==
    {"BeginProg", "Function", "Sub", "Dim", "Public", "Const", "ConstTable",
     "If", "For", "While", "Do", "Select", "Scan", "SubScan", "SlowSequence",
     "DisplayMenu", "SubMenu", "DataTable", "CallTable", "#If", "#IfDef",
     "#UnDef", "Include"}

\* The terminators of If and While exchanged.
TerminatorCrossed ==
    ("BeginProg" :> "EndProg")
 @@ ("Function" :> "EndFunction")
 @@ ("Sub" :> "EndSub")
 @@ ("If" :> "Wend")
 @@ ("For" :> "Next")
 @@ ("While" :> "EndIf")
 @@ ("Do" :> "Loop")
 @@ ("Select" :> "EndSelect")
 @@ ("Scan" :> "NextScan")
 @@ ("SubScan" :> "NextSubScan")
 @@ ("SlowSequence" :> "EndSequence")
 @@ ("DisplayMenu" :> "EndMenu")
 @@ ("SubMenu" :> "EndSubMenu")
 @@ ("DataTable" :> "EndTable")
 @@ ("#If" :> "#EndIf")
 @@ ("#IfDef" :> "#EndIf")
 @@ ("ConstTable" :> "EndConstTable")

\* The keyword that ends each rule that has a body.
Terminator ==
    ("BeginProg" :> "EndProg")
 @@ ("Function" :> "EndFunction")
 @@ ("Sub" :> "EndSub")
 @@ ("If" :> "EndIf")
 @@ ("For" :> "Next")
 @@ ("While" :> "Wend")
 @@ ("Do" :> "Loop")
 @@ ("Select" :> "EndSelect")
 @@ ("Scan" :> "NextScan")
 @@ ("SubScan" :> "NextSubScan")
 @@ ("SlowSequence" :> "EndSequence")
 @@ ("DisplayMenu" :> "EndMenu")
 @@ ("SubMenu" :> "EndSubMenu")
 @@ ("DataTable" :> "EndTable")
 @@ ("#If" :> "#EndIf")
 @@ ("#IfDef" :> "#EndIf")
 @@ ("ConstTable" :> "EndConstTable")

\* What follows the head: repeat($._statement), repeat($.menu_item), the
\* Case clauses, the ConstTable entries, or nothing (the rule is complete).
AfterHead(rule) ==
    CASE rule \in {"DisplayMenu", "SubMenu"} -> "items"
      [] rule = "ConstTable" -> "entries"
      [] rule = "Select" -> "clauses"
      [] rule \in DOMAIN Terminator -> "body"
      [] OTHER -> "done"

\* The rule ends where it could go on.
TailChoiceReduce == "reduce"

\* for_loop and do_loop are prec.right: where the rule could end or go on
\* with its optional tail, the parser goes on.
TailChoice == "shift"

(***************************************************************************)
(* The parser's state p: the stack of open rules, the expression stack es  *)
(* with its mode em ("none": between expressions, "operand": an operand is *)
(* due, "operator": an operand is complete, "string": inside a string),    *)
(* the status, the nodes completed so far and the last expression's tree.  *)
(* An open rule is in phase ph: "head" (item i of its head is due),        *)
(* "tailhead" (item i of DoTail is due), or one of the phases below.       *)
(***************************************************************************)
Frame(rule, ph, i, v) == [rule |-> rule, ph |-> ph, i |-> i, v |-> v, w |-> <<>>]

Top(p) == p.stack[Len(p.stack)]

SetTop(p, f) == [p EXCEPT !.stack[Len(p.stack)] = f]

Err(p) == [p EXCEPT !.status = "error"]

ScriptOf(f) == IF f.ph = "tailhead" THEN DoTail ELSE RuleHead[f.rule]

\* The rule on top of the stack is complete: its node is built.
Complete(p) ==
    LET f == Top(p)
    IN  [p EXCEPT !.stack = SubSeq(@, 1, Len(@) - 1),
                  !.nodes = Append(@, [rule |-> f.rule, v |-> f.v, w |-> f.w])]

\* After the last item of a head: open the body, or complete the rule.
Settle(p) ==
    LET f == Top(p)
    IN  IF f.ph \in {"head", "tailhead"} /\ f.i > Len(ScriptOf(f))
        THEN IF f.ph = "tailhead" \/ AfterHead(f.rule) = "done"
             THEN Complete(p)
             ELSE SetTop(p, [f EXCEPT !.ph = AfterHead(f.rule)])
        ELSE p

AdvanceBy(p, n) == Settle(SetTop(p, [Top(p) EXCEPT !.i = @ + n]))

Advance(p) == AdvanceBy(p, 1)

Push(p, rule, v) == Settle([p EXCEPT !.stack = Append(@, Frame(rule, "head", 1, v))])

HasMarker(s) == \E i \in 1..Len(s) : s[i].k \in {"lp", "call"}

\* The expression on the stack is complete: reduce it to one tree and go on
\* with the rule that asked for it.
ExprDone(p) ==
    LET r == ReduceFor(p.es, 0)
    IN  Advance([p EXCEPT !.es = <<>>, !.em = "none", !.lastExpr = r[Len(r)].tr])

\* ')' closes the function_call whose marker is at position m of stack r.
CloseCall(p, r, m, args) ==
    LET call == Opd(CallNode(r[m].tr.s, args), FALSE)
        q    == [p EXCEPT !.es = Append(SubSeq(r, 1, m - 1), call), !.em = "operator"]
    IN  IF Top(p).ph = "call" /\ m = 1
        THEN Complete([q EXCEPT !.es = <<>>, !.em = "none"])
        ELSE q

RECURSIVE Step(_, _)

\* A token inside a string: /[^"\\]/, /\\./ or the closing '"'.
StringStep(p, tok) ==
    LET n == Len(p.es)
    IN  CASE tok.kind \in {"strchar", "strescape"} -> p
          [] tok.kind = "\"" ->
                IF p.es[n].op = "expr"
                THEN [p EXCEPT !.es = Append(SubSeq(@, 1, n - 1),
                                             Opd(Leaf("string", <<>>), FALSE)),
                               !.em = "operator"]
                ELSE Advance([p EXCEPT !.es = <<>>, !.em = "none"])
          [] OTHER -> Err(p)

\* A token inside an expression.
ExprStep(p, tok) ==
    LET k == tok.kind
        s == p.es
        n == Len(s)
    IN  IF p.em = "operand"
        THEN CASE k = "identifier" ->
                    [p EXCEPT !.es = Append(s, Opd(Leaf("identifier", tok.s), TRUE)),
                              !.em = "operator"]
               [] k = "number" ->
                    [p EXCEPT !.es = Append(s, Opd(Leaf("number", tok.s), FALSE)),
                              !.em = "operator"]
               [] k \in BooleanLits ->
                    [p EXCEPT !.es = Append(s, Opd(Leaf("boolean", tok.s), FALSE)),
                              !.em = "operator"]
               [] k = "\"" -> [p EXCEPT !.es = Append(s, Str("expr")), !.em = "string"]
               [] k \in UnaryOps -> [p EXCEPT !.es = Append(s, Un(k))]
               [] k = "(" -> [p EXCEPT !.es = Append(s, Lp)]
               [] k = ")" /\ n >= 1 /\ s[n].k = "call" /\ s[n].tr.kids = <<>> ->
                    CloseCall(p, s, n, <<>>)
               [] OTHER -> Err(p)
        ELSE CASE k \in BinaryOps ->
                    [p EXCEPT !.es = Append(ReduceFor(s, BinaryLevel[k]), Bin(k)),
                              !.em = "operand"]
               [] k = "(" /\ s[n].isId ->
                    [p EXCEPT !.es = Append(SubSeq(s, 1, n - 1), Call(s[n].tr.s, <<>>)),
                              !.em = "operand"]
               [] k = ")" /\ HasMarker(s) ->
                    LET r == ReduceFor(s, 0)
                        m == Len(r)
                    IN  IF r[m - 1].k = "lp"
                        THEN [p EXCEPT !.es = Append(SubSeq(r, 1, m - 2),
                                   Opd(Node("parenthesized_expression", "", <<r[m].tr>>), FALSE))]
                        ELSE CloseCall(p, r, m - 1, Append(r[m - 1].tr.kids, r[m].tr))
               [] k = "," /\ HasMarker(s) ->
                    LET r == ReduceFor(s, 0)
                        m == Len(r)
                    IN  IF r[m - 1].k = "call"
                        THEN [p EXCEPT !.es = Append(SubSeq(r, 1, m - 2),
                                   Call(r[m - 1].tr.s, Append(r[m - 1].tr.kids, r[m].tr))),
                                       !.em = "operand"]
                        ELSE Err(p)
               [] OTHER -> IF HasMarker(s) THEN Err(p) ELSE Step(ExprDone(p), tok)

\* A token where a statement may start.
StartStatement(p, tok) ==
    CASE tok.kind \in StatementKeywords -> Push(p, tok.kind, <<>>)
      [] tok.kind = "identifier" ->
            [p EXCEPT !.stack = Append(@, Frame("identifier", "afterid", 0, tok.s))]
      [] OTHER -> Err(p)

\* The item of a head that is due meets the token.
HeadStep(p, tok) ==
    LET f  == Top(p)
        it == ScriptOf(f)[f.i]
        k  == tok.kind
    IN  CASE it.ty = "lit" -> IF k = it.k THEN Advance(p) ELSE Err(p)
          [] it.ty = "id" ->
                IF k = "identifier"
                THEN Advance(SetTop(p, [f EXCEPT !.v = IF @ = <<>> THEN tok.s ELSE @]))
                ELSE Err(p)
          [] it.ty = "bool" -> IF k \in BooleanLits THEN Advance(p) ELSE Err(p)
          [] it.ty = "type" -> IF k \in TypeLits THEN Advance(p) ELSE Err(p)
          [] it.ty = "str" ->
                IF k = "\"" THEN [p EXCEPT !.es = <<Str("frame")>>, !.em = "string"]
                ELSE Err(p)
          [] it.ty = "expr" -> ExprStep([p EXCEPT !.es = <<>>, !.em = "operand"], tok)
          [] it.ty = "opt" ->
                IF k = it.k THEN Advance(p) ELSE Step(AdvanceBy(p, it.n + 1), tok)
          [] it.ty = "params" ->
                IF k = "(" THEN SetTop(p, [f EXCEPT !.ph = "params0"])
                ELSE Step(Advance(p), tok)

\* A token in a body: the rule's terminator, one of its separators, or the
\* start of a statement.
BodyStep(p, tok) ==
    LET f == Top(p)
        k == tok.kind
    IN  CASE f.rule = "source_file" ->
                IF k = "eof" THEN [p EXCEPT !.status = "accepted"]
                ELSE StartStatement(p, tok)
          [] f.rule # "source_file" /\ k = Terminator[f.rule] ->
                IF f.rule \in {"For", "Do"}
                THEN SetTop(p, [f EXCEPT !.ph = "tail"])
                ELSE Complete(p)
          [] f.rule = "If" /\ f.ph = "body" /\ k \in {"ElseIf", "Else If"} ->
                SetTop(p, [f EXCEPT !.ph = "head", !.i = 1])
          [] f.rule = "If" /\ f.ph = "body" /\ k = "Else" ->
                SetTop(p, [f EXCEPT !.ph = "else"])
          [] f.rule \in {"#If", "#IfDef"} /\ f.ph = "body" /\ k = "#Else" ->
                SetTop(p, [f EXCEPT !.ph = "else"])
          [] f.rule = "Select" /\ k = "Case" -> SetTop(p, [f EXCEPT !.ph = "case"])
          [] OTHER -> StartStatement(p, tok)

\* A token between expressions: the phase of the rule on top decides.
FrameStep(p, tok) ==
    LET f == Top(p)
        k == tok.kind
    IN  CASE f.ph \in {"head", "tailhead"} -> HeadStep(p, tok)
          [] f.ph \in {"body", "else"} -> BodyStep(p, tok)
          [] f.ph = "params0" ->
                CASE k = "identifier" -> SetTop(p, [f EXCEPT !.ph = "params1"])
                  [] k = ")" -> Advance(SetTop(p, [f EXCEPT !.ph = "head"]))
                  [] OTHER -> Err(p)
          [] f.ph = "params1" ->
                CASE k = "," -> SetTop(p, [f EXCEPT !.ph = "params2"])
                  [] k = ")" -> Advance(SetTop(p, [f EXCEPT !.ph = "head"]))
                  [] OTHER -> Err(p)
          [] f.ph = "params2" ->
                IF k = "identifier" THEN SetTop(p, [f EXCEPT !.ph = "params1"]) ELSE Err(p)
          [] f.ph = "afterid" ->
                CASE k \in AssignOps ->
                        SetTop(p, [f EXCEPT !.rule = "assignment", !.ph = "head", !.i = 1])
                  [] k = "(" ->
                        [SetTop(p, [f EXCEPT !.rule = "function_call", !.ph = "call"])
                            EXCEPT !.es = <<Call(f.v, <<>>)>>, !.em = "operand"]
                  [] OTHER -> Err(p)
          [] f.ph = "clauses" ->
                CASE k = "Case" -> SetTop(p, [f EXCEPT !.ph = "case"])
                  [] k = "EndSelect" -> Complete(p)
                  [] OTHER -> Err(p)
          [] f.ph = "case" ->
                CASE k = "Else" -> SetTop(p, [f EXCEPT !.ph = "body"])
                  [] k = "Is" -> Push(SetTop(p, [f EXCEPT !.ph = "body"]), "CaseClause", <<>>)
                  [] OTHER ->
                        Step(Push(SetTop(p, [f EXCEPT !.ph = "body"]), "CaseClause", <<>>), tok)
          [] f.ph = "items" ->
                CASE k = "MenuItem" -> Push(p, "MenuItem", <<>>)
                  [] k = Terminator[f.rule] -> Complete(p)
                  [] OTHER -> Err(p)
          [] f.ph = "entries" ->
                CASE k = "identifier" -> Push(p, "ConstEntry", tok.s)
                  [] k = Terminator[f.rule] -> Complete(p)
                  [] OTHER -> Err(p)
          [] f.ph = "tail" ->
                CASE f.rule = "For" /\ k = "identifier" /\ TailChoice = "shift" ->
                        Complete(SetTop(p, [f EXCEPT !.w = tok.s]))
                  [] f.rule = "Do" /\ k \in {"While", "Until"} /\ TailChoice = "shift" ->
                        SetTop(p, [f EXCEPT !.ph = "tailhead", !.i = 1, !.w = Literal[k]])
                  [] OTHER -> Step(Complete(p), tok)
          [] OTHER -> Err(p)

\* One token through the parser.  A comment is an extra: it is accepted
\* anywhere and changes nothing.
Step(p, tok) ==
    IF p.status # "parsing" THEN p
    ELSE IF tok.kind = "comment" THEN p
    ELSE IF p.em = "string" THEN StringStep(p, tok)
    ELSE IF p.em \in {"operand", "operator"} THEN ExprStep(p, tok)
    ELSE FrameStep(p, tok)

\* The tokens the lexer may return in state p: those the parser has an
\* action for.
Admits(p, kind) == Step(p, [kind |-> kind, s |-> <<>>]).status # "error"

(***************************************************************************)
(* The lexer in front of the parser.                                       *)
(***************************************************************************)
\* Comments skipped like whitespace, building no node either.
ExtrasSkipComments(t, i) ==
    RunLen(t, i, WhiteSpace) + CommentLen(t, i + RunLen(t, i, WhiteSpace))

\* extras: /\s/ is skipped before every token and builds no node.
ExtrasSkip(t, i) == RunLen(t, i, WhiteSpace)

\* The lexer's choice among the tokens cs that match: the best of them.
Choice(cs) == CHOOSE c \in cs : \A d \in cs : ~Better(d, c)

\* Lex and parse t from position i to its end.  st holds the parser's
\* state p and the tokens (the tree's leaves) with their spans.
RECURSIVE LexFrom(_, _, _)

\* The lexer is at position j of t after the extras, where the tokens cs
\* match and the parser admits them: none is an error, else the chosen one
\* goes to the parser and lexing goes on behind it.
LexToken(st, t, j, cs) ==
    IF cs = {} THEN [st EXCEPT !.p = Err(st.p)]
    ELSE LexFrom([p    |-> Step(st.p, [kind |-> Choice(cs).kind,
                                       s    |-> SubSeq(t, j, j + Choice(cs).len - 1)]),
                  toks |-> Append(st.toks,
                              [kind |-> Choice(cs).kind, from |-> j,
                               to   |-> j + Choice(cs).len - 1])],
                 t, j + Choice(cs).len)

LexAfterExtras(st, t, j) ==
    IF j > Len(t) \/ st.p.status # "parsing" THEN st
    ELSE LexToken(st, t, j, {c \in Candidates(t, j) : Admits(st.p, c.kind)})

LexFrom(st, t, i) == LexAfterExtras(st, t, i + ExtrasSkip(t, i))

(***************************************************************************)
(* The state machine: the source text arrives word by word, each word      *)
(* after a separator, and is lexed and parsed as it arrives; then the end  *)
(* of input.                                                               *)
(***************************************************************************)
P == [stack |-> stack, es |-> es, em |-> em, status |-> status,
      nodes |-> nodes, lastExpr |-> lastExpr]

Space == <<" ">>

NewLine == <<"\n">>

StartsWith(w, pre) == Len(w) >= Len(pre) /\ SubSeq(w, 1, Len(pre)) = pre

\* The separators under which lexing the text so far stays right whatever
\* follows: a comment runs to the end of its line, and 'Else If' is one
\* token (written as one word when it is meant).
SepAllowed(sep, w) ==
    /\ sep = <<>> <=> words = <<>>
    /\ (toks # <<>> /\ toks[Len(toks)].kind = "comment") => sep = NewLine
    /\ (toks # <<>> /\ toks[Len(toks)].kind = "Else" /\ sep = Space)
          => ~StartsWith(w, Literal["If"])

\* The words the n-th word of the text is drawn from: vocab[n], and the
\* last of vocab from there on.
WordsAt(n) == vocab[IF n < Len(vocab) THEN n ELSE Len(vocab)]

\* The parser's state q and the tokens tk become the state.
Becomes(q, tk) ==
    /\ toks' = tk
    /\ stack' = q.stack
    /\ es' = q.es
    /\ em' = q.em
    /\ status' = q.status
    /\ nodes' = q.nodes
    /\ lastExpr' = q.lastExpr

Lexed(st) == Becomes(st.p, st.toks)

\* The next word w arrives after the separator sep.
Feed(sep, w) ==
    /\ status = "parsing"
    /\ Len(words) < limit
    /\ SepAllowed(sep, w)
    /\ text' = text \o sep \o w
    /\ Lexed(LexFrom([p |-> P, toks |-> toks], text \o sep \o w, Len(text) + 1))
    /\ words' = Append(words, w)
    /\ UNCHANGED <<vocab, seps, limit>>

\* End of input, possibly after a last line break.
Finish(sep) ==
    /\ status = "parsing"
    /\ (toks # <<>> /\ toks[Len(toks)].kind = "comment") => sep = NewLine
    /\ Becomes(Step(P, [kind |-> "eof", s |-> <<>>]), toks)
    /\ text' = text \o sep
    /\ UNCHANGED <<words, vocab, seps, limit>>

Next ==
    \/ \E sep \in seps \cup {<<>>} : \E w \in WordsAt(Len(words) + 1) : Feed(sep, w)
    \/ \E sep \in {<<>>} \cup (seps \cap {NewLine}) : Finish(sep)

\* The state before the first word: leading whitespace from leads, the
\* vocabulary v, the separators sp and the number of words l of the texts.
InitWith(v, leads, sp, l) ==
    /\ text \in leads
    /\ toks = <<>>
    /\ stack = <<Frame("source_file", "body", 0, <<>>)>>
    /\ es = <<>>
    /\ em = "none"
    /\ status = "parsing"
    /\ nodes = <<>>
    /\ lastExpr = NoTree
    /\ words = <<>>
    /\ vocab = v
    /\ seps = sp
    /\ limit = l


(***************************************************************************)
(* Source texts.  Each specification draws its words from a vocabulary    *)
(* that reaches the rules it is about.                                     *)
(***************************************************************************)
\* Expressions: an assignment x=a, the operand with or without a unary
\* prefix, continued by words "op a".
Operands == {<<"a">>, <<"2">>}

Prefixes == UnaryOps \cup {""}

AssignWord(u, o) ==
    <<"x", "=">>
    \o (IF u = "" THEN <<>> ELSE Literal[u])
    \o (IF u = "NOT" THEN Space ELSE <<>>)
    \o o

OpWord(op, o) == Literal[op] \o Space \o o

ExprVocab ==
    <<{AssignWord(u, <<"a">>) : u \in Prefixes} \cup {AssignWord("", <<"2">>)},
      {OpWord(op, o) : op \in BinaryOps, o \in Operands}>>

MaxExprWords == 3

InitExpr == InitWith(ExprVocab, {<<>>}, {Space}, MaxExprWords)

SpecExpr == InitExpr /\ [][Next]_vars

\* Blocks: a word for each block's opening (the keyword with its head), a
\* word for each terminator, and an assignment.  A text's first three words
\* are any of them; from the fourth on it closes blocks.
\* What the text writes after each opening keyword, from the rule's head.
OpenerTail ==
    ("BeginProg" :> <<>>)
 @@ ("Function" :> <<" ", "f">>)
 @@ ("Sub" :> <<" ", "s">>)
 @@ ("If" :> <<" ", "a", " ", "T", "h", "e", "n">>)
 @@ ("For" :> <<" ", "i", "=", "1", " ", "T", "o", " ", "2">>)
 @@ ("While" :> <<" ", "a">>)
 @@ ("Do" :> <<>>)
 @@ ("Select" :> <<" ", "C", "a", "s", "e", " ", "a">>)
 @@ ("Scan" :> <<"(", "1", ",", "s", ",", "0", ",", "0", ")">>)
 @@ ("SubScan" :> <<"(", "1", ",", "s", ")">>)
 @@ ("SlowSequence" :> <<>>)
 @@ ("DisplayMenu" :> <<>>)
 @@ ("SubMenu" :> <<" ", "m">>)
 @@ ("DataTable" :> <<" ", "t", " ", "T", "r", "u", "e", " ", "1">>)
 @@ ("#If" :> <<" ", "a">>)
 @@ ("#IfDef" :> <<" ", "d">>)

BlockRules == DOMAIN OpenerTail

OpenerWord(rule) == Literal[rule] \o OpenerTail[rule]

TerminatorWords == {Literal[Terminator[rule]] : rule \in BlockRules}

BlockWords == {OpenerWord(rule) : rule \in BlockRules} \cup TerminatorWords \cup {<<"x", "=", "1">>}

BlockVocab == <<BlockWords, BlockWords, BlockWords, TerminatorWords>>

MaxBlockWords == 4

InitBlock == InitWith(BlockVocab, {<<>>}, {Space}, MaxBlockWords)

SpecBlock == InitBlock /\ [][Next]_vars

\* Loops: a text opens a For or a Do loop and goes on with loop terminators,
\* identifiers, conditions and statements, on the same or the next line.
ForWord == Literal["For"] \o <<" ", "i", "=", "1", " ", "T", "o", " ", "9", " ">>
               \o Literal["Step"] \o <<" ", "2">>

AssignmentWord == <<"x", "=", "1">>

WhileWord == Literal["While"] \o <<" ", "a">>

UntilWord == Literal["Until"] \o <<" ", "a">>

LoopVocab ==
    <<{ForWord, Literal["Do"]},
      {ForWord, Literal["Do"], Literal["Next"], Literal["Loop"], Literal["Wend"],
       <<"i">>, <<"j">>, AssignmentWord, WhileWord, UntilWord}>>

MaxLoopWords == 4

InitLoop == InitWith(LoopVocab, {<<>>}, {Space, NewLine}, MaxLoopWords)

SpecLoop == InitLoop /\ [][Next]_vars

\* Tables: DataTable and CallTable as the rules write them, and with
\* their arguments in parentheses.
DataTableWord ==
    Literal["DataTable"] \o <<" ", "t", " ">> \o Literal["True"] \o <<" ", "1", "0", "0">>

DataTableParenWord ==
    Literal["DataTable"] \o <<"(", "t", ",">> \o Literal["True"] \o <<",", "1", "0", "0", ")">>

CallTableWord == Literal["CallTable"] \o <<" ", "t">>

CallTableParenWord == Literal["CallTable"] \o <<"(", "t", ")">>

TableVocab ==
    <<{DataTableWord, DataTableParenWord, CallTableWord, CallTableParenWord,
       AssignmentWord, Literal["EndTable"]}>>

MaxTableWords == 4

InitTable == InitWith(TableVocab, {<<>>}, {Space, NewLine}, MaxTableWords)

SpecTable == InitTable /\ [][Next]_vars

\* Tokens: keywords and boolean literals in several spellings, and numbers
\* in every form of the number rule.
ValueWord(v) == <<"x", "=">> \o v

KeywordWords ==
    {Literal["BeginProg"], <<"b", "e", "g", "i", "n", "p", "r", "o", "g">>,
     Literal["EndProg"],
     Literal["If"] \o <<" ", "a", " ">> \o Literal["Then"],
     Literal["EndIf"], <<"E", "N", "D", "I", "F">>}

BooleanWords ==
    {ValueWord(Literal[b]) : b \in {"True", "TRUE", "true"}}
    \cup {ValueWord(<<"t", "R", "u", "E">>)}

NumberWords ==
    {ValueWord(n) : n \in {<<"&", "h", "F", "F">>, <<"&", "b", "1", "0", "1">>,
                           <<"1", ".", "5", "e", "-", "3">>, <<"1", "0", "U", "L">>,
                           <<"1", "0", "U", "l">>, <<"1", "0", "U">>, <<"1", "0">>,
                           <<".", "5">>, <<"2", ".">>, <<"2", "E", "3">>, <<"1", ".", "5", "F">>}}

LexVocab == <<KeywordWords \cup BooleanWords \cup NumberWords>>

MaxLexWords == 3

InitLex == InitWith(LexVocab, {<<>>}, {Space, NewLine}, MaxLexWords)

SpecLex == InitLex /\ [][Next]_vars

\* Layout: statements, a call with a blank inside and a comment, after
\* blanks, tabs and line breaks, the first word also at the start of a text
\* that begins with whitespace.
CommentWord == <<"'", "a", " ", "b">>

CallWord == <<"f", "(", "a", ",", " ", "b", ")">>

Tab == <<"\t">>

TextVocab ==
    <<{AssignmentWord, CommentWord, CallWord, Literal["BeginProg"], Literal["EndProg"]}>>

MaxTextWords == 4

InitText == InitWith(TextVocab, {<<>>, Space, NewLine}, {Space, NewLine, Tab}, MaxTextWords)

SpecText == InitText /\ [][Next]_vars

(***************************************************************************)
(* Operator precedence and associativity.                                  *)
(***************************************************************************)
\* The binding levels as stated, lowest to highest: additive,
\* multiplicative, power, comparison, logical, bitwise, shift.
StatedLevel(op) ==
    CASE op \in {"+", "-"} -> 1
      [] op \in {"*", "/", "MOD", "INTDV"} -> 2
      [] op = "^" -> 3
      [] op \in {"=", "<>", "<", ">", "<=", ">="} -> 4
      [] op \in {"AND", "OR", "XOR", "IMP"} -> 5
      [] op \in {"&", "|"} -> 6
      [] op \in {">>", "<<"} -> 7

OperandTree(o) ==
    IF o[1] \in Digit THEN Leaf("number", o) ELSE Leaf("identifier", o)

FirstTree(u, o) ==
    IF u = "" THEN OperandTree(o)
    ELSE Node("unary_expression", u, <<OperandTree(o)>>)

BinaryTree(op, l, r) == Node("binary_expression", op, <<l, r>>)

\* (a op1 b) op2 c
GroupLeft(u, a, op1, b, op2, c) ==
    BinaryTree(op2, BinaryTree(op1, FirstTree(u, a), OperandTree(b)), OperandTree(c))

\* a op1 (b op2 c)
GroupRight(u, a, op1, b, op2, c) ==
    BinaryTree(op1, FirstTree(u, a), BinaryTree(op2, OperandTree(b), OperandTree(c)))

\* The text x = [u]a op1 b op2 c has been parsed to its end.
Parsed(u, a, op1, b, op2, c) ==
    /\ status = "accepted"
    /\ words = <<AssignWord(u, a), OpWord(op1, b), OpWord(op2, c)>>

\* Holds(u, a, op1, b, op2, c) for the text x = [u]a op1 b op2 c that has been
\* parsed to its end, if the state is one of these.
ForParsed(Holds(_, _, _, _, _, _)) ==
    (status = "accepted" /\ Len(words) = 3) =>
        \A u \in Prefixes, a \in Operands : words[1] = AssignWord(u, a) =>
            \A op1 \in BinaryOps, b \in Operands : words[2] = OpWord(op1, b) =>
                \A op2 \in BinaryOps, c \in Operands : words[3] = OpWord(op2, c) =>
                    Holds(u, a, op1, b, op2, c)

\* C1: in [u]a op1 b op2 c with op1 and op2 on different levels, the
\* operator on the higher level groups first whichever comes first, and a
\* unary prefix u groups with a alone.
C1_HigherLevelGroupsFirst ==
    LET Holds(u, a, op1, b, op2, c) ==
            StatedLevel(op1) # StatedLevel(op2)
                => lastExpr = IF StatedLevel(op1) > StatedLevel(op2)
                              THEN GroupLeft(u, a, op1, b, op2, c)
                              ELSE GroupRight(u, a, op1, b, op2, c)
    IN  ForParsed(Holds)

\* x = -a + a * a has been parsed: the tree is +(-(a), *(a, a)).
C1_Witness ==
    /\ Parsed("-", <<"a">>, "+", <<"a">>, "*", <<"a">>)
    /\ lastExpr = GroupRight("-", <<"a">>, "+", <<"a">>, "*", <<"a">>)

\* C2: in a op1 b op2 c with op1 and op2 on the same level, '^' included,
\* the tree is (a op1 b) op2 c.
C2_LeftAssociative ==
    LET Holds(u, a, op1, b, op2, c) ==
            StatedLevel(op1) = StatedLevel(op2)
                => lastExpr = GroupLeft(u, a, op1, b, op2, c)
    IN  ForParsed(Holds)

\* x = 2 ^ 2 ^ 2 has been parsed: the tree is ^(^(2, 2), 2).
C2_Witness ==
    /\ Parsed("", <<"2">>, "^", <<"2">>, "^", <<"2">>)
    /\ lastExpr = GroupLeft("", <<"2">>, "^", <<"2">>, "^", <<"2">>)

(***************************************************************************)
(* Block structure.                                                        *)
(***************************************************************************)
\* The terminator stated for each block opener.
StatedTerminator ==
    ("BeginProg" :> "EndProg") @@ ("Function" :> "EndFunction") @@ ("Sub" :> "EndSub")
 @@ ("If" :> "EndIf") @@ ("For" :> "Next") @@ ("While" :> "Wend") @@ ("Do" :> "Loop")
 @@ ("Select" :> "EndSelect") @@ ("Scan" :> "NextScan") @@ ("SubScan" :> "NextSubScan")
 @@ ("SlowSequence" :> "EndSequence") @@ ("DisplayMenu" :> "EndMenu")
 @@ ("SubMenu" :> "EndSubMenu") @@ ("DataTable" :> "EndTable")
 @@ ("#If" :> "#EndIf") @@ ("#IfDef" :> "#EndIf")

StatedOpeners == DOMAIN StatedTerminator

StatedTerminators == {StatedTerminator[o] : o \in StatedOpeners}

\* Token i opens a block: an opener, other than the While of 'Loop While'.
Opens(i) ==
    /\ toks[i].kind \in StatedOpeners
    /\ ~(toks[i].kind = "While" /\ i > 1 /\ toks[i - 1].kind = "Loop")

\* The openers still unclosed after tokens i.., given those unclosed before
\* (innermost last); <<"unmatched">> once a terminator meets no opener of
\* its own kind innermost.
RECURSIVE Unclosed(_, _)
Unclosed(i, open) ==
    IF i > Len(toks) THEN open
    ELSE IF Opens(i) THEN Unclosed(i + 1, Append(open, toks[i].kind))
    ELSE IF toks[i].kind \in StatedTerminators
         THEN IF open # <<>> /\ StatedTerminator[open[Len(open)]] = toks[i].kind
              THEN Unclosed(i + 1, SubSeq(open, 1, Len(open) - 1))
              ELSE <<"unmatched">>
    ELSE Unclosed(i + 1, open)

\* C3: in the tokens the parser has accepted, every terminator closes the
\* innermost open block and is that block's own terminator, and at the
\* end of an accepted text no block is open.
C3_BlocksNested ==
    /\ Unclosed(1, <<>>) # <<"unmatched">>
    /\ status = "accepted" => Unclosed(1, <<>>) = <<>>

\* The openers and terminators among the tokens.
BlockKinds == SelectSeq([i \in 1..Len(toks) |-> toks[i].kind],
                        LAMBDA k : k \in StatedOpeners \cup StatedTerminators)

\* A For loop nested in BeginProg, both closed, has been accepted.
C3_Witness ==
    /\ status = "accepted"
    /\ BlockKinds = <<"BeginProg", "For", "Next", "EndProg">>

(***************************************************************************)
(* Loop terminators.                                                       *)
(***************************************************************************)
Lexeme(i) == SubSeq(text, toks[i].from, toks[i].to)

\* The positions of the tokens of kind k, in order.
TokensOf(k) == SelectSeq([i \in 1..Len(toks) |-> i], LAMBDA i : toks[i].kind = k)

\* The completed nodes of rule r, in order of completion.
NodesOf(r) == SelectSeq(nodes, LAMBDA n : n.rule = r)

\* C6: a For loop whose Next names a variable other than the loop's own
\* gets a diagnostic: no text with such a loop is accepted.
C6_TrailingNameMustMatch ==
    status = "accepted" =>
        \A k \in 1..Len(NodesOf("For")) :
            NodesOf("For")[k].w # <<>> => NodesOf("For")[k].w = NodesOf("For")[k].v

\* The loop that the k-th Loop token ends: the k-th completed Do loop, or
\* the innermost open rule while its condition is being read.
DoLoop(k) ==
    IF k <= Len(NodesOf("Do")) THEN NodesOf("Do")[k].w
    ELSE IF stack[Len(stack)].rule = "Do" THEN stack[Len(stack)].w
    ELSE <<>>

\* C10: an identifier directly after Next is the For loop's trailing
\* variable, and While or Until directly after Loop is the Do loop's
\* condition clause, whatever separates them and whatever follows.
C10_TailConsumed ==
    /\ \A k \in 1..Len(TokensOf("Next")) :
          LET i == TokensOf("Next")[k]
          IN  (i < Len(toks) /\ toks[i + 1].kind = "identifier")
                => /\ k <= Len(NodesOf("For"))
                   /\ NodesOf("For")[k].w = Lexeme(i + 1)
    /\ \A k \in 1..Len(TokensOf("Loop")) :
          LET i == TokensOf("Loop")[k]
          IN  (i < Len(toks) /\ toks[i + 1].kind \in {"While", "Until"})
                => DoLoop(k) = Literal[toks[i + 1].kind]

\* Next, and on the next line x=1: x is the loop's trailing variable and
\* the '=' after it is an error.
C10_Witness ==
    /\ words = <<ForWord, Literal["Next"], AssignmentWord>>
    /\ text = ForWord \o Space \o Literal["Next"] \o NewLine \o AssignmentWord
    /\ NodesOf("For") = <<[rule |-> "For", v |-> <<"i">>, w |-> <<"x">>]>>
    /\ status = "error"

(***************************************************************************)
(* Tables.                                                                 *)
(***************************************************************************)
IsPrefix(a, b) == Len(a) <= Len(b) /\ SubSeq(b, 1, Len(a)) = a

\* C8: DataTable(t,True,100) with a body and EndTable, and CallTable(t),
\* are read without a diagnostic and, at their end, accepted.
C8_ParenthesizedTablesAccepted ==
    \A claimed \in {<<DataTableParenWord, AssignmentWord, Literal["EndTable"]>>,
                     <<CallTableParenWord>>} :
        /\ IsPrefix(words, claimed) => status # "error"
        /\ (words = claimed /\ status # "parsing") => status = "accepted"

(***************************************************************************)
(* Tokens.                                                                 *)
(***************************************************************************)
\* A word in another case, with the word in the grammar's spelling.
CaseVariants ==
    {[variant |-> <<"b", "e", "g", "i", "n", "p", "r", "o", "g">>,
      canonical |-> Literal["BeginProg"]],
     [variant |-> <<"E", "N", "D", "I", "F">>, canonical |-> Literal["EndIf"]],
     [variant |-> ValueWord(<<"t", "R", "u", "E">>), canonical |-> ValueWord(Literal["True"])],
     [variant |-> ValueWord(Literal["TRUE"]), canonical |-> ValueWord(Literal["True"])],
     [variant |-> ValueWord(Literal["true"]), canonical |-> ValueWord(Literal["True"])]}

EndsWith(t, w) == Len(w) <= Len(t) /\ SubSeq(t, Len(t) - Len(w) + 1, Len(t)) = w

\* The kind a token counts as: the boolean literals are one kind.
KindClass(k) == IF k \in BooleanLits THEN "boolean" ELSE k

KindClasses(tk) == [i \in 1..Len(tk) |-> KindClass(tk[i].kind)]

\* The tokens of the whole text t.
TokensOfText(t) ==
    LexFrom([p |-> [stack |-> <<Frame("source_file", "body", 0, <<>>)>>, es |-> <<>>,
                    em |-> "none", status |-> "parsing", nodes |-> <<>>,
                    lastExpr |-> NoTree],
             toks |-> <<>>], t, 1).toks

\* C4: a keyword or boolean literal in another case is the same kind of
\* token as in the grammar's spelling at the same place of the same text.
C4_CaseInsensitiveKeywords ==
    \A cv \in CaseVariants :
        (words # <<>> /\ words[Len(words)] = cv.variant /\ EndsWith(text, cv.variant))
            => KindClasses(toks)
                 = KindClasses(TokensOfText(
                       SubSeq(text, 1, Len(text) - Len(cv.variant)) \o cv.canonical))

\* C5: each of &hFF, &b101, 1.5e-3, 10UL and 10Ul is one number token that
\* spans the whole lexeme.
C5_NumberLexemesAreOneToken ==
    \A n \in {<<"&", "h", "F", "F">>, <<"&", "b", "1", "0", "1">>,
               <<"1", ".", "5", "e", "-", "3">>, <<"1", "0", "U", "L">>,
               <<"1", "0", "U", "l">>} :
        (words # <<>> /\ words[Len(words)] = ValueWord(n) /\ EndsWith(text, n))
            => /\ toks # <<>>
               /\ toks[Len(toks)] = [kind |-> "number", from |-> Len(text) - Len(n) + 1,
                                      to |-> Len(text)]

(***************************************************************************)
(* Leaf spans.                                                             *)
(***************************************************************************)
\* The text under the leaves' spans, in order.
RECURSIVE LeafText(_)
LeafText(n) == IF n = 0 THEN <<>> ELSE LeafText(n - 1) \o Lexeme(n)

Covered(j) == \E i \in 1..Len(toks) : toks[i].from <= j /\ j <= toks[i].to

====
